---------------------------- MODULE Spec2Model ----------------------------
(***************************************************************************)
(* Model of omnilib/omniproxy.c: the shim that forwards COmniStart,        *)
(* CJsonCmdReq and CSetCallback to the external module omnicored.          *)
(*                                                                         *)
(* Both build variants of the file are modelled; `variant` says which one  *)
(* the process was built as.  Every C function is cut into steps at its    *)
(* reads and writes of the three global entry-point slots, so that the     *)
(* same definitions give the sequential behaviour (Spec: one call at a     *)
(* time) and the multi-threaded behaviour (SpecRace).                      *)
(*                                                                         *)
(* Pointers are integers, NULL is 0.  C strings handled by the path code   *)
(* are sequences of one-character strings in a NUL-terminated buffer.      *)
(***************************************************************************)
EXTENDS Integers, Sequences, FiniteSets

\* ------------------------------------------------------------------ bounds
\* Longest generated path of the running executable (characters).
MaxPathLen == 3

\* ------------------------------------------------------- program constants
NULL == 0
MAX_PATH == 260
INDEX_CALLBACK_GoJsonCmdReq == 1
\* Address of the local reverse-callback function handed to the module.
JsonCmdReqOmToHc == 900

NUL == "NUL"
Backslash == "\\"
DllName == <<"o", "m", "n", "i", "c", "o", "r", "e", "d", ".", "d", "l", "l">>

Threads == {"t1", "t2"}
Symbols == {"OmniStart", "JsonCmdReq", "SetCallback"}

\* ------------------------------------------------------- the outside world
\* Module handles LoadLibrary can return: one per set of exported symbols.
Handles == 1 .. 8

Exports(h) ==
    {s \in Symbols :
        \/ s = "OmniStart" /\ ((h - 1) % 2) = 1
        \/ s = "JsonCmdReq" /\ (((h - 1) \div 2) % 2) = 1
        \/ s = "SetCallback" /\ (((h - 1) \div 4) % 2) = 1}

\* Address of an exported entry point inside the loaded module.
SymAddr(name) ==
    CASE name = "OmniStart" -> 101
      [] name = "JsonCmdReq" -> 102
      [] name = "SetCallback" -> 103

GetProcAddress(h, name) == IF name \in Exports(h) THEN SymAddr(name) ELSE NULL

\* Addresses of the statically linked symbols of the non-Windows build.
OmniStart == 201
JsonCmdReq == 202

\* Values the external entry points may return.
IntResults == {-1, 0, 7}
StrResults == {NULL, 701}

\* Arguments a host application may pass.
CharPtrs == {NULL, 601, 602}
Indexes == {-65537, -1, 0, 1, 65536}
Callbacks == {NULL, JsonCmdReqOmToHc, 901}

\* Paths of the running executable.
PathChars == {Backslash, "a"}
LongExePath == <<"C", ":", Backslash, "h", "c", Backslash, "h", "c", "w", "a",
                 "l", "l", "e", "t", ".", "e", "x", "e">>
ExePaths ==
    UNION {[1 .. n -> PathChars] : n \in 0 .. MaxPathLen} \cup {LongExePath}

\* ------------------------------------------------------------- conversions
\* int -> unsigned int at the call through FunSetCallback: the value modulo
\* 2^32, kept as its two 16-bit halves.
ToUnsigned(i) == [hi |-> (i \div 65536) % 65536, lo |-> i % 65536]

\* The unsigned value u is numerically the int i.
SameValue(u, i) == i >= 0 /\ u = ToUnsigned(i)

\* ------------------------------------------------------ C string routines
BufIdx == 1 .. (MAX_PATH + 1)

\* char szFilePath[MAX_PATH + 1] = {0};
ZeroBuf == [i \in BufIdx |-> NUL]

\* GetModuleFileNameA(NULL, buf, nSize): the path, cut to nSize - 1
\* characters when it does not fit, then a terminator.
GetModuleFileNameA(buf, path, nSize) ==
    LET n == IF Len(path) < nSize THEN Len(path) ELSE nSize - 1
    IN  [i \in BufIdx |-> IF i <= n THEN path[i]
                          ELSE IF i = n + 1 THEN NUL
                          ELSE buf[i]]

strlen(buf) == (CHOOSE i \in BufIdx :
                    buf[i] = NUL /\ \A j \in 1 .. (i - 1) : buf[j] # NUL) - 1

\* Position (1-based) of the first c in the string, 0 (NULL) when absent.
strchr(buf, c) ==
    LET hits == {i \in 1 .. strlen(buf) : buf[i] = c}
    IN  IF hits = {} THEN 0
        ELSE CHOOSE i \in hits : \A j \in hits : i <= j

strcpy(buf, s) ==
    [i \in BufIdx |-> IF i <= Len(s) THEN s[i]
                      ELSE IF i = Len(s) + 1 THEN NUL
                      ELSE buf[i]]

\* The string a char* to the start of the buffer denotes.
CStr(buf) == [i \in 1 .. strlen(buf) |-> buf[i]]

\* Mutant of BuildPath: line 25 appends the file name to the truncated
\* directory (strcat) instead of overwriting the buffer.
BuildPath_Strcat(exe) ==
    LET b1 == GetModuleFileNameA(ZeroBuf, exe, MAX_PATH)
        p == strchr(b1, Backslash)
        b2 == [b1 EXCEPT ![p + 1] = NUL]
        n == strlen(b2)
    IN  CStr([i \in BufIdx |->
                 IF i > n /\ i <= n + Len(DllName) THEN DllName[i - n]
                 ELSE IF i = n + Len(DllName) + 1 THEN NUL
                 ELSE b2[i]])

\* Lines 22-25 for an executable path whose strchr result is non-null.
BuildPath(exe) ==
    LET b1 == GetModuleFileNameA(ZeroBuf, exe, MAX_PATH)
        p == strchr(b1, Backslash)
        b2 == [b1 EXCEPT ![p + 1] = NUL]
    IN  CStr(strcpy(b2, DllName))

\* Lines 22-25 when strchr returned NULL and the store through it did not
\* fault: the buffer is as GetModuleFileNameA left it.
BuildPathNoStore(exe) ==
    CStr(strcpy(GetModuleFileNameA(ZeroBuf, exe, MAX_PATH), DllName))

HasBackslash(exe) == \E i \in 1 .. Len(exe) : exe[i] = Backslash

\* -------------------------------------------------------------------- state
VARIABLES
    variant,        \* "win" (_WIN32/_WIN64 defined, lines 5-65) or "posix"
    exePath,        \* path of the running executable (read at line 23)
    funOmniStart,   \* the entry-point slots (line 13)
    funJsonCmdReq,  \*                       (line 15)
    funSetCallback, \*                       (line 14)
    thr,            \* per thread: the call it is in and its locals
    crashed         \* the process took an access violation

vars == <<variant, exePath, funOmniStart, funJsonCmdReq, funSetCallback, thr,
          crashed>>
slots == <<funOmniStart, funJsonCmdReq, funSetCallback>>

Idle ==
    [pc |-> "idle", op |-> "none", args |-> <<>>, chk |-> NULL,
     hDllInst |-> NULL, szFilePath |-> <<>>, calls |-> <<>>, ret |-> 0]

Init ==
    /\ variant \in {"win", "posix"}
    /\ exePath \in ExePaths
    /\ funOmniStart = NULL
    /\ funSetCallback = NULL
    /\ funJsonCmdReq = NULL
    /\ thr = [t \in Threads |-> Idle]
    /\ crashed = FALSE


\* ------------------------------------------------------------------ helpers
Sequential(t) == \A u \in Threads \ {t} : thr[u].pc = "idle"

At(t, label, name) ==
    /\ ~crashed
    /\ thr[t].pc = label
    /\ thr[t].op = name

Update(t, rec) == thr' = [thr EXCEPT ![t] = rec]

CallRec(f, a, r) == [fn |-> f, args |-> a, res |-> r]

\* A call through a function-pointer slot whose value thr[t].chk passed the
\* null test earlier.  The reads are unsynchronized: the build either reads
\* the slot again for the call or reuses the value it tested.  Calling
\* through a null pointer faults.
\* keep = TRUE : the caller returns the callee's result.
Invoke(t, slot, a, results, keep) ==
    \E f \in {slot, thr[t].chk} :
        IF f = NULL
        THEN /\ crashed' = TRUE
             /\ Update(t, [thr[t] EXCEPT !.pc = "fault",
                              !.calls = Append(@, CallRec(NULL, a, 0))])
        ELSE /\ crashed' = crashed
             /\ \E r \in results :
                    Update(t, [thr[t] EXCEPT !.pc = "done",
                                  !.calls = Append(@, CallRec(f, a, r)),
                                  !.ret = IF keep THEN r ELSE @])

\* A call of a statically linked external function.
InvokeStatic(t, f, a, results) ==
    \E r \in results :
        Update(t, [thr[t] EXCEPT !.pc = "done",
                      !.calls = Append(@, CallRec(f, a, r)),
                      !.ret = r])

\* ------------------------------------------- the host application's calls
CallLoadLibAndInit(t) ==
    /\ ~crashed
    /\ thr[t].pc = "idle"
    /\ Update(t, [Idle EXCEPT !.pc = "enter", !.op = "CLoadLibAndInit"])
    /\ UNCHANGED <<variant, exePath, slots, crashed>>

CallOmniStart(t) ==
    /\ ~crashed
    /\ thr[t].pc = "idle"
    /\ \E pcArgs \in CharPtrs, pcArgs1 \in CharPtrs :
           Update(t, [Idle EXCEPT !.pc = "enter", !.op = "COmniStart",
                         !.args = <<pcArgs, pcArgs1>>])
    /\ UNCHANGED <<variant, exePath, slots, crashed>>

CallJsonCmdReq(t) ==
    /\ ~crashed
    /\ thr[t].pc = "idle"
    /\ \E pcReq \in CharPtrs :
           Update(t, [Idle EXCEPT !.pc = "enter", !.op = "CJsonCmdReq",
                         !.args = <<pcReq>>])
    /\ UNCHANGED <<variant, exePath, slots, crashed>>

CallSetCallback(t) ==
    /\ ~crashed
    /\ thr[t].pc = "idle"
    /\ \E iIndex \in Indexes, pCallback \in Callbacks :
           Update(t, [Idle EXCEPT !.pc = "enter", !.op = "CSetCallback",
                         !.args = <<iIndex, pCallback>>])
    /\ UNCHANGED <<variant, exePath, slots, crashed>>

\* The call has returned to the host application.
Return(t) ==
    /\ ~crashed
    /\ thr[t].pc = "done"
    /\ Update(t, Idle)
    /\ UNCHANGED <<variant, exePath, slots, crashed>>

\* ------------------------------------------ CLoadLibAndInit, Windows build
\* Lines 20-25: build the path handed to LoadLibrary.  When the executable's
\* path holds no backslash strchr returns NULL and line 24 stores through
\* it: the process faults, or the store goes unnoticed.
InitPath(t) ==
    /\ At(t, "enter", "CLoadLibAndInit")
    /\ variant = "win"
    /\ IF strchr(GetModuleFileNameA(ZeroBuf, exePath, MAX_PATH), Backslash) # 0
       THEN /\ Update(t, [thr[t] EXCEPT !.pc = "load",
                             !.szFilePath = BuildPath(exePath)])
            /\ crashed' = crashed
       ELSE \/ /\ Update(t, [thr[t] EXCEPT !.pc = "fault"])
               /\ crashed' = TRUE
            \/ /\ Update(t, [thr[t] EXCEPT !.pc = "load",
                                !.szFilePath = BuildPathNoStore(exePath)])
               /\ crashed' = crashed
    /\ UNCHANGED <<variant, exePath, slots>>

\* Mutant of InitLoad: a failed load resets the three slots.
InitLoad_ClearOnFail(t) ==
    /\ At(t, "load", "CLoadLibAndInit")
    /\ \E h \in {NULL} \cup Handles :
           /\ Update(t, [thr[t] EXCEPT !.hDllInst = h,
                            !.pc = IF h = NULL THEN "done" ELSE "resolve1"])
           /\ IF h = NULL
              THEN /\ funOmniStart' = NULL
                   /\ funJsonCmdReq' = NULL
                   /\ funSetCallback' = NULL
              ELSE UNCHANGED slots
    /\ UNCHANGED <<variant, exePath, crashed>>

\* Lines 27-32: LoadLibrary(szFilePath); a null handle returns at once.
InitLoad(t) ==
    /\ At(t, "load", "CLoadLibAndInit")
    /\ \E h \in {NULL} \cup Handles :
           Update(t, [thr[t] EXCEPT !.hDllInst = h,
                         !.pc = IF h = NULL THEN "done" ELSE "resolve1"])
    /\ UNCHANGED <<variant, exePath, slots, crashed>>

\* Mutant of InitResolveOmniStart: the store waits while another thread is
\* between its null test of funOmniStart and its call (a lock around the slot).
InitResolveOmniStart_Locked(t) ==
    /\ At(t, "resolve1", "CLoadLibAndInit")
    /\ \A u \in Threads \ {t} :
           ~(thr[u].pc = "call" /\ thr[u].op = "COmniStart")
    /\ funOmniStart' = GetProcAddress(thr[t].hDllInst, "OmniStart")
    /\ Update(t, [thr[t] EXCEPT !.pc = "resolve2"])
    /\ UNCHANGED <<variant, exePath, funJsonCmdReq, funSetCallback, crashed>>

\* Line 34.
InitResolveOmniStart(t) ==
    /\ At(t, "resolve1", "CLoadLibAndInit")
    /\ funOmniStart' = GetProcAddress(thr[t].hDllInst, "OmniStart")
    /\ Update(t, [thr[t] EXCEPT !.pc = "resolve2"])
    /\ UNCHANGED <<variant, exePath, funJsonCmdReq, funSetCallback, crashed>>

\* Mutant of InitResolveJsonCmdReq: a missing OmniStart symbol aborts the
\* resolution of the remaining symbols.
InitResolveJsonCmdReq_Abort(t) ==
    /\ At(t, "resolve2", "CLoadLibAndInit")
    /\ IF funOmniStart = NULL
       THEN /\ Update(t, [thr[t] EXCEPT !.pc = "done"])
            /\ UNCHANGED funJsonCmdReq
       ELSE /\ funJsonCmdReq' = GetProcAddress(thr[t].hDllInst, "JsonCmdReq")
            /\ Update(t, [thr[t] EXCEPT !.pc = "resolve3"])
    /\ UNCHANGED <<variant, exePath, funOmniStart, funSetCallback, crashed>>

\* Line 35.
InitResolveJsonCmdReq(t) ==
    /\ At(t, "resolve2", "CLoadLibAndInit")
    /\ funJsonCmdReq' = GetProcAddress(thr[t].hDllInst, "JsonCmdReq")
    /\ Update(t, [thr[t] EXCEPT !.pc = "resolve3"])
    /\ UNCHANGED <<variant, exePath, funOmniStart, funSetCallback, crashed>>

\* Line 36.
InitResolveSetCallback(t) ==
    /\ At(t, "resolve3", "CLoadLibAndInit")
    /\ funSetCallback' = GetProcAddress(thr[t].hDllInst, "SetCallback")
    /\ Update(t, [thr[t] EXCEPT !.pc = "check"])
    /\ UNCHANGED <<variant, exePath, funOmniStart, funJsonCmdReq, crashed>>

\* Line 38: the null test of the freshly resolved set-callback slot.
InitCheckCallback(t) ==
    /\ At(t, "check", "CLoadLibAndInit")
    /\ Update(t, [thr[t] EXCEPT !.chk = funSetCallback,
                     !.pc = IF funSetCallback # NULL THEN "call" ELSE "done"])
    /\ UNCHANGED <<variant, exePath, slots, crashed>>

\* Mutant of InitRegister: the registration uses index 0.
InitRegister_WrongIndex(t) ==
    /\ At(t, "call", "CLoadLibAndInit")
    /\ Invoke(t, funSetCallback, <<ToUnsigned(0), JsonCmdReqOmToHc>>,
              IntResults, FALSE)
    /\ UNCHANGED <<variant, exePath, slots>>

\* Lines 39-42: register the reverse callback; the result is dropped.  (The
\* printf of line 41 only reads funJsonCmdReq.)
InitRegister(t) ==
    /\ At(t, "call", "CLoadLibAndInit")
    /\ Invoke(t, funSetCallback,
              <<ToUnsigned(INDEX_CALLBACK_GoJsonCmdReq), JsonCmdReqOmToHc>>,
              IntResults, FALSE)
    /\ UNCHANGED <<variant, exePath, slots>>

\* ---------------------------------------------- forwarders, Windows build
\* Mutant of StartCheck: the null test of the slot is missing.
StartCheck_NoTest(t) ==
    /\ At(t, "enter", "COmniStart")
    /\ variant = "win"
    /\ Update(t, [thr[t] EXCEPT !.chk = funOmniStart, !.pc = "call"])
    /\ UNCHANGED <<variant, exePath, slots, crashed>>

\* Lines 47-48.
StartCheck(t) ==
    /\ At(t, "enter", "COmniStart")
    /\ variant = "win"
    /\ IF funOmniStart = NULL
       THEN Update(t, [thr[t] EXCEPT !.chk = NULL, !.ret = -1, !.pc = "done"])
       ELSE Update(t, [thr[t] EXCEPT !.chk = funOmniStart, !.pc = "call"])
    /\ UNCHANGED <<variant, exePath, slots, crashed>>

\* Mutant of StartCall: the two strings are passed in the wrong order.
StartCall_Swapped(t) ==
    /\ At(t, "call", "COmniStart")
    /\ Invoke(t, funOmniStart, <<thr[t].args[2], thr[t].args[1]>>,
              IntResults, TRUE)
    /\ UNCHANGED <<variant, exePath, slots>>

\* Line 49.
StartCall(t) ==
    /\ At(t, "call", "COmniStart")
    /\ Invoke(t, funOmniStart, <<thr[t].args[1], thr[t].args[2]>>,
              IntResults, TRUE)
    /\ UNCHANGED <<variant, exePath, slots>>

\* Lines 54-55.
JsonCheck(t) ==
    /\ At(t, "enter", "CJsonCmdReq")
    /\ variant = "win"
    /\ IF funJsonCmdReq = NULL
       THEN Update(t, [thr[t] EXCEPT !.chk = NULL, !.ret = NULL, !.pc = "done"])
       ELSE Update(t, [thr[t] EXCEPT !.chk = funJsonCmdReq, !.pc = "call"])
    /\ UNCHANGED <<variant, exePath, slots, crashed>>

\* Mutant of JsonCall: the forwarder resets its slot after the call.
JsonCall_ClearsSlot(t) ==
    /\ At(t, "call", "CJsonCmdReq")
    /\ Invoke(t, funJsonCmdReq, <<thr[t].args[1]>>, StrResults, TRUE)
    /\ funJsonCmdReq' = NULL
    /\ UNCHANGED <<variant, exePath, funOmniStart, funSetCallback>>

\* Lines 56-57.
JsonCall(t) ==
    /\ At(t, "call", "CJsonCmdReq")
    /\ Invoke(t, funJsonCmdReq, <<thr[t].args[1]>>, StrResults, TRUE)
    /\ UNCHANGED <<variant, exePath, slots>>

\* Mutant of SetCallbackCheck: the test of the pointer argument is missing.
SetCallbackCheck_NoPointerTest(t) ==
    /\ At(t, "enter", "CSetCallback")
    /\ variant = "win"
    /\ IF funSetCallback = NULL
       THEN Update(t, [thr[t] EXCEPT !.chk = NULL, !.ret = -1, !.pc = "done"])
       ELSE Update(t, [thr[t] EXCEPT !.chk = funSetCallback, !.pc = "call"])
    /\ UNCHANGED <<variant, exePath, slots, crashed>>

\* Lines 62-63: slot test, then the test of the pointer argument.
SetCallbackCheck(t) ==
    /\ At(t, "enter", "CSetCallback")
    /\ variant = "win"
    /\ IF funSetCallback = NULL
       THEN Update(t, [thr[t] EXCEPT !.chk = NULL, !.ret = -1, !.pc = "done"])
       ELSE IF thr[t].args[2] = NULL
       THEN Update(t, [thr[t] EXCEPT !.chk = funSetCallback, !.ret = -1,
                          !.pc = "done"])
       ELSE Update(t, [thr[t] EXCEPT !.chk = funSetCallback, !.pc = "call"])
    /\ UNCHANGED <<variant, exePath, slots, crashed>>

\* Line 64: iIndex (int) is passed as the unsigned int first parameter.
SetCallbackCall(t) ==
    /\ At(t, "call", "CSetCallback")
    /\ Invoke(t, funSetCallback,
              <<ToUnsigned(thr[t].args[1]), thr[t].args[2]>>, IntResults, TRUE)
    /\ UNCHANGED <<variant, exePath, slots>>

\* ------------------------------------------------------ non-Windows build
\* Lines 70-73.
PosixLoadLibAndInit(t) ==
    /\ At(t, "enter", "CLoadLibAndInit")
    /\ variant = "posix"
    /\ Update(t, [thr[t] EXCEPT !.pc = "done"])
    /\ UNCHANGED <<variant, exePath, slots, crashed>>

\* Mutant of PosixOmniStart: the two strings are passed in the wrong order.
PosixOmniStart_Swapped(t) ==
    /\ At(t, "enter", "COmniStart")
    /\ variant = "posix"
    /\ InvokeStatic(t, OmniStart, <<thr[t].args[2], thr[t].args[1]>>,
                    IntResults)
    /\ UNCHANGED <<variant, exePath, slots, crashed>>

\* Lines 74-77.
PosixOmniStart(t) ==
    /\ At(t, "enter", "COmniStart")
    /\ variant = "posix"
    /\ InvokeStatic(t, OmniStart, <<thr[t].args[1], thr[t].args[2]>>,
                    IntResults)
    /\ UNCHANGED <<variant, exePath, slots, crashed>>

\* Lines 78-81.
PosixJsonCmdReq(t) ==
    /\ At(t, "enter", "CJsonCmdReq")
    /\ variant = "posix"
    /\ InvokeStatic(t, JsonCmdReq, <<thr[t].args[1]>>, StrResults)
    /\ UNCHANGED <<variant, exePath, slots, crashed>>

\* Lines 84-87.
PosixSetCallback(t) ==
    /\ At(t, "enter", "CSetCallback")
    /\ variant = "posix"
    /\ Update(t, [thr[t] EXCEPT !.ret = 0, !.pc = "done"])
    /\ UNCHANGED <<variant, exePath, slots, crashed>>

\* ------------------------------------------------------------ specifications
\* The host application makes one call at a time (either build).
Next ==
    \/ \E t \in Threads : Sequential(t) /\ CallLoadLibAndInit(t)
    \/ \E t \in Threads : Sequential(t) /\ CallOmniStart(t)
    \/ \E t \in Threads : Sequential(t) /\ CallJsonCmdReq(t)
    \/ \E t \in Threads : Sequential(t) /\ CallSetCallback(t)
    \/ \E t \in Threads : Sequential(t) /\ Return(t)
    \/ \E t \in Threads : Sequential(t) /\ InitPath(t)
    \/ \E t \in Threads : Sequential(t) /\ InitLoad(t)
    \/ \E t \in Threads : Sequential(t) /\ InitResolveOmniStart(t)
    \/ \E t \in Threads : Sequential(t) /\ InitResolveJsonCmdReq(t)
    \/ \E t \in Threads : Sequential(t) /\ InitResolveSetCallback(t)
    \/ \E t \in Threads : Sequential(t) /\ InitCheckCallback(t)
    \/ \E t \in Threads : Sequential(t) /\ InitRegister(t)
    \/ \E t \in Threads : Sequential(t) /\ StartCheck(t)
    \/ \E t \in Threads : Sequential(t) /\ StartCall(t)
    \/ \E t \in Threads : Sequential(t) /\ JsonCheck(t)
    \/ \E t \in Threads : Sequential(t) /\ JsonCall(t)
    \/ \E t \in Threads : Sequential(t) /\ SetCallbackCheck(t)
    \/ \E t \in Threads : Sequential(t) /\ SetCallbackCall(t)
    \/ \E t \in Threads : Sequential(t) /\ PosixLoadLibAndInit(t)
    \/ \E t \in Threads : Sequential(t) /\ PosixOmniStart(t)
    \/ \E t \in Threads : Sequential(t) /\ PosixJsonCmdReq(t)
    \/ \E t \in Threads : Sequential(t) /\ PosixSetCallback(t)

Spec == Init /\ [][Next]_vars

\* The Windows build called from several threads at once.
InitRace ==
    /\ Init
    /\ variant = "win"
    /\ exePath = LongExePath

NextRace ==
    \/ \E t \in Threads : CallLoadLibAndInit(t)
    \/ \E t \in Threads : CallOmniStart(t)
    \/ \E t \in Threads : CallJsonCmdReq(t)
    \/ \E t \in Threads : CallSetCallback(t)
    \/ \E t \in Threads : Return(t)
    \/ \E t \in Threads : InitPath(t)
    \/ \E t \in Threads : InitLoad(t)
    \/ \E t \in Threads : InitResolveOmniStart(t)
    \/ \E t \in Threads : InitResolveJsonCmdReq(t)
    \/ \E t \in Threads : InitResolveSetCallback(t)
    \/ \E t \in Threads : InitCheckCallback(t)
    \/ \E t \in Threads : InitRegister(t)
    \/ \E t \in Threads : StartCheck(t)
    \/ \E t \in Threads : StartCall(t)
    \/ \E t \in Threads : JsonCheck(t)
    \/ \E t \in Threads : JsonCall(t)
    \/ \E t \in Threads : SetCallbackCheck(t)
    \/ \E t \in Threads : SetCallbackCall(t)

SpecRace == InitRace /\ [][NextRace]_vars

\* ------------------------------------------------------------------ claims
Done(t, name) == thr[t].pc = "done" /\ thr[t].op = name

\* The single external call of a finished operation went to f with
\* arguments a, and the operation returned that call's result.
Forwarded(t, f, a) ==
    /\ Len(thr[t].calls) = 1
    /\ thr[t].calls[1].fn = f
    /\ thr[t].calls[1].args = a
    /\ thr[t].ret = thr[t].calls[1].res

\* C1: in the Windows build, called one at a time, a forwarding operation
\* whose own slot is null returns its failure value (-1, or NULL for
\* CJsonCmdReq) without any external call, and no call ever goes through a
\* null slot.
C1_UnresolvedSlotFails ==
    variant = "win" =>
        \A t \in Threads :
            /\ Done(t, "COmniStart") /\ funOmniStart = NULL
                   => thr[t].ret = -1 /\ thr[t].calls = <<>>
            /\ Done(t, "CJsonCmdReq") /\ funJsonCmdReq = NULL
                   => thr[t].ret = NULL /\ thr[t].calls = <<>>
            /\ Done(t, "CSetCallback") /\ funSetCallback = NULL
                   => thr[t].ret = -1 /\ thr[t].calls = <<>>
            /\ \A i \in DOMAIN thr[t].calls : thr[t].calls[i].fn # NULL

\* C1 witness: after an initialization that resolved OmniStart but not
\* JsonCmdReq, CJsonCmdReq has returned its failure value.
C1_Witness ==
    /\ variant = "win"
    /\ funOmniStart # NULL
    /\ funJsonCmdReq = NULL
    /\ \E t \in Threads : Done(t, "CJsonCmdReq") /\ thr[t].ret = NULL

\* C2 as stated: in either build CSetCallback with a null callback pointer
\* returns a negative value and makes no external call.
C2_Original ==
    \A t \in Threads :
        Done(t, "CSetCallback") /\ thr[t].args[2] = NULL
            => thr[t].ret < 0 /\ thr[t].calls = <<>>

\* C2 amended: CSetCallback with a null callback pointer makes no external
\* call in either build; the Windows build returns -1 whatever the slot
\* holds, the non-Windows build returns 0.
C2_NullCallback ==
    \A t \in Threads :
        Done(t, "CSetCallback") /\ thr[t].args[2] = NULL
            => /\ thr[t].calls = <<>>
               /\ thr[t].ret = IF variant = "win" THEN -1 ELSE 0

\* C2 witness: the Windows build rejected a null pointer although the
\* set-callback slot is resolved.
C2_Witness ==
    /\ variant = "win"
    /\ funSetCallback # NULL
    /\ \E t \in Threads :
           /\ Done(t, "CSetCallback")
           /\ thr[t].args[2] = NULL
           /\ thr[t].ret = -1

\* The part of C3 about COmniStart and CJsonCmdReq, and the target and
\* result of CSetCallback.
C3_Common(t) ==
    /\ Done(t, "COmniStart") /\ funOmniStart # NULL
           => Forwarded(t, funOmniStart, thr[t].args)
    /\ Done(t, "CJsonCmdReq") /\ funJsonCmdReq # NULL
           => Forwarded(t, funJsonCmdReq, thr[t].args)
    /\ Done(t, "CSetCallback") /\ funSetCallback # NULL /\ thr[t].args[2] # NULL
           => /\ Len(thr[t].calls) = 1
              /\ thr[t].calls[1].fn = funSetCallback
              /\ thr[t].calls[1].args[2] = thr[t].args[2]
              /\ thr[t].ret = thr[t].calls[1].res

\* C3 as stated: with its slot resolved every forwarding operation makes one
\* call with exactly the values it received, the index of CSetCallback
\* included whatever its sign, and returns the result.
C3_Original ==
    variant = "win" =>
        \A t \in Threads :
            /\ C3_Common(t)
            /\ Done(t, "CSetCallback") /\ funSetCallback # NULL
                   /\ thr[t].args[2] # NULL
                   => SameValue(thr[t].calls[1].args[1], thr[t].args[1])

\* C3 amended: as C3, except that the index reaches the entry point converted
\* to unsigned int: unchanged when non-negative, index + 2^32 when negative.
C3_PassThrough ==
    variant = "win" =>
        \A t \in Threads :
            /\ C3_Common(t)
            /\ Done(t, "CSetCallback") /\ funSetCallback # NULL
                   /\ thr[t].args[2] # NULL
                   => /\ thr[t].calls[1].args[1] = ToUnsigned(thr[t].args[1])
                      /\ thr[t].args[1] >= 0
                             => SameValue(thr[t].calls[1].args[1],
                                          thr[t].args[1])
                      /\ thr[t].args[1] = -1
                             => thr[t].calls[1].args[1]
                                    = [hi |-> 65535, lo |-> 65535]

\* C3 witness: CSetCallback has forwarded a negative index.
C3_Witness ==
    /\ variant = "win"
    /\ \E t \in Threads :
           /\ Done(t, "CSetCallback")
           /\ thr[t].args[1] < 0
           /\ Len(thr[t].calls) = 1

AllSlotsNull ==
    funOmniStart = NULL /\ funJsonCmdReq = NULL /\ funSetCallback = NULL

\* C4 as stated: whenever a CLoadLibAndInit call has returned after a failed
\* load, all three slots are unresolved.
C4_Original ==
    variant = "win" =>
        \A t \in Threads :
            Done(t, "CLoadLibAndInit") /\ thr[t].hDllInst = NULL
                => AllSlotsNull

\* C4 amended: a CLoadLibAndInit call whose load fails returns at once,
\* makes no external call and leaves the three slots exactly as they were
\* (unresolved only if they were unresolved before the call).
C4_FailedLoadKeepsSlots ==
    [][\A t \in Threads :
           (thr[t].pc = "load" /\ thr'[t].pc # "load"
                /\ thr'[t].hDllInst = NULL)
               => /\ slots' = slots
                  /\ thr'[t].pc = "done"
                  /\ thr'[t].calls = <<>>
                  /\ ~crashed']_vars

\* C4 witness: an initialization returned after a failed load while a slot
\* resolved by an earlier initialization is still resolved.
C4_Witness ==
    /\ variant = "win"
    /\ funOmniStart # NULL
    /\ \E t \in Threads :
           Done(t, "CLoadLibAndInit") /\ thr[t].hDllInst = NULL

\* C5: once a successful load has passed a symbol's lookup, that slot is
\* resolved exactly when the module exports the symbol, whatever the other
\* two lookups gave; with only JsonCmdReq resolved CJsonCmdReq forwards and
\* the other two operations return -1.
C5_SlotsFollowExports ==
    variant = "win" =>
        \A t \in Threads :
            /\ (thr[t].op = "CLoadLibAndInit" /\ thr[t].hDllInst # NULL)
                   => /\ thr[t].pc \in {"resolve2", "resolve3", "check",
                                        "call", "done"}
                          => funOmniStart
                                 = GetProcAddress(thr[t].hDllInst, "OmniStart")
                      /\ thr[t].pc \in {"resolve3", "check", "call", "done"}
                          => (funJsonCmdReq # NULL
                                  <=> "JsonCmdReq" \in Exports(thr[t].hDllInst))
                      /\ thr[t].pc \in {"check", "call", "done"}
                          => /\ funOmniStart # NULL
                                  <=> "OmniStart" \in Exports(thr[t].hDllInst)
                             /\ funSetCallback # NULL
                                  <=> "SetCallback" \in Exports(thr[t].hDllInst)
            /\ (funJsonCmdReq # NULL /\ funOmniStart = NULL
                    /\ funSetCallback = NULL)
                   => /\ Done(t, "CJsonCmdReq")
                          => Forwarded(t, funJsonCmdReq, thr[t].args)
                      /\ Done(t, "COmniStart") => thr[t].ret = -1
                      /\ Done(t, "CSetCallback") => thr[t].ret = -1

\* C5 witness: an initialization has returned after loading a module that
\* exports JsonCmdReq only.
C5_Witness ==
    /\ variant = "win"
    /\ funJsonCmdReq # NULL
    /\ funOmniStart = NULL
    /\ funSetCallback = NULL
    /\ \E t \in Threads :
           /\ Done(t, "CLoadLibAndInit")
           /\ Exports(thr[t].hDllInst) = {"JsonCmdReq"}

\* C6: an initialization that loaded the module and resolved SetCallback has
\* made exactly one external call when it returns, through that slot, with
\* index 1 and JsonCmdReqOmToHc; it makes no call before the slot has been
\* resolved and tested, and none at all when the load fails or the symbol
\* is missing.
C6_OneRegistration ==
    variant = "win" =>
        \A t \in Threads :
            thr[t].op = "CLoadLibAndInit"
                => /\ (thr[t].pc = "done" /\ thr[t].hDllInst # NULL
                           /\ "SetCallback" \in Exports(thr[t].hDllInst))
                       => /\ Len(thr[t].calls) = 1
                          /\ thr[t].calls[1].fn = funSetCallback
                          /\ funSetCallback # NULL
                          /\ SameValue(thr[t].calls[1].args[1], 1)
                          /\ thr[t].calls[1].args[2] = JsonCmdReqOmToHc
                   /\ (thr[t].pc = "done"
                           /\ (thr[t].hDllInst = NULL
                                   \/ "SetCallback"
                                          \notin Exports(thr[t].hDllInst)))
                       => thr[t].calls = <<>>
                   /\ thr[t].pc \notin {"done", "fault"}
                       => thr[t].calls = <<>>

\* C6 witness: an initialization has returned with its registration made.
C6_Witness ==
    /\ variant = "win"
    /\ \E t \in Threads :
           /\ Done(t, "CLoadLibAndInit")
           /\ Len(thr[t].calls) = 1
           /\ thr[t].calls[1].args[2] = JsonCmdReqOmToHc

\* The part of C7 about CLoadLibAndInit, COmniStart and CJsonCmdReq.
C7_Common(t) ==
    /\ AllSlotsNull
    /\ ~crashed
    /\ Done(t, "CLoadLibAndInit") => thr[t].calls = <<>>
    /\ Done(t, "COmniStart") => Forwarded(t, OmniStart, thr[t].args)
    /\ Done(t, "CJsonCmdReq") => Forwarded(t, JsonCmdReq, thr[t].args)

\* C7 as stated: in the non-Windows build CLoadLibAndInit does nothing and
\* each of the three operations makes one external call with its arguments
\* and returns its result.
C7_Original ==
    variant = "posix" =>
        \A t \in Threads :
            /\ C7_Common(t)
            /\ Done(t, "CSetCallback")
                   => /\ Len(thr[t].calls) = 1
                      /\ thr[t].calls[1].args = thr[t].args
                      /\ thr[t].ret = thr[t].calls[1].res

\* C7 amended: in the non-Windows build CLoadLibAndInit does nothing,
\* COmniStart and CJsonCmdReq forward to OmniStart and JsonCmdReq and return
\* their results, and CSetCallback makes no call and returns 0.
C7_StaticVariant ==
    variant = "posix" =>
        \A t \in Threads :
            /\ C7_Common(t)
            /\ Done(t, "CSetCallback")
                   => thr[t].calls = <<>> /\ thr[t].ret = 0

\* C7 witness: the non-Windows COmniStart has returned the result of
\* OmniStart called with two different strings.
C7_Witness ==
    /\ variant = "posix"
    /\ \E t \in Threads :
           /\ Done(t, "COmniStart")
           /\ thr[t].args[1] # thr[t].args[2]
           /\ Len(thr[t].calls) = 1

ResolveSteps == {"resolve1", "resolve2", "resolve3"}

\* The slots change only in a symbol-lookup step of a CLoadLibAndInit whose
\* load succeeded.
SlotsWrittenOnlyByInit ==
    slots' # slots
        => \E t \in Threads :
               /\ thr[t].op = "CLoadLibAndInit"
               /\ thr[t].pc \in ResolveSteps
               /\ thr[t].hDllInst # NULL
               /\ thr'[t].pc # thr[t].pc

\* C8 as stated: the slots start unresolved, change only inside
\* CLoadLibAndInit, and a resolved slot never becomes unresolved again.
C8_Original ==
    /\ AllSlotsNull
    /\ [][/\ SlotsWrittenOnlyByInit
          /\ funOmniStart # NULL => funOmniStart' # NULL
          /\ funJsonCmdReq # NULL => funJsonCmdReq' # NULL
          /\ funSetCallback # NULL => funSetCallback' # NULL]_vars

\* C8 amended: the slots start unresolved and change only inside a
\* CLoadLibAndInit whose load succeeded, which stores each lookup's result
\* in its slot, null included, whatever the slot held; forwarding operations
\* never write a slot.
C8_SlotLifecycle ==
    /\ AllSlotsNull
    /\ [][/\ SlotsWrittenOnlyByInit
          /\ \A t \in Threads :
                 (thr[t].op = "CLoadLibAndInit" /\ thr'[t].pc # thr[t].pc)
                     => /\ thr[t].pc = "resolve1"
                            => funOmniStart'
                                   = GetProcAddress(thr[t].hDllInst,
                                                    "OmniStart")
                        /\ thr[t].pc = "resolve2"
                            => funJsonCmdReq'
                                   = GetProcAddress(thr[t].hDllInst,
                                                    "JsonCmdReq")
                        /\ thr[t].pc = "resolve3"
                            => funSetCallback'
                                   = GetProcAddress(thr[t].hDllInst,
                                                    "SetCallback")]_vars

\* C8 witness: a second initialization, whose module exports nothing, has
\* stored null in funOmniStart while the other two slots still hold what an
\* earlier initialization resolved.
C8_Witness ==
    /\ variant = "win"
    /\ funOmniStart = NULL
    /\ funJsonCmdReq # NULL
    /\ funSetCallback # NULL
    /\ \E t \in Threads :
           /\ thr[t].op = "CLoadLibAndInit"
           /\ thr[t].pc = "resolve2"
           /\ Exports(thr[t].hDllInst) = {}

\* C9: nothing locks the slots: whenever one thread stands between the null
\* test of a slot and its call through it, and another thread's
\* CLoadLibAndInit stands at the store to that slot, the store can happen.
C9_NoLock ==
    \A t \in Threads : \A u \in Threads \ {t} :
        (~crashed /\ thr[t].pc = "call" /\ thr[u].op = "CLoadLibAndInit")
            => /\ (thr[t].op = "COmniStart" /\ thr[u].pc = "resolve1")
                   => ENABLED InitResolveOmniStart(u)
               /\ (thr[t].op = "CJsonCmdReq" /\ thr[u].pc = "resolve2")
                   => ENABLED InitResolveJsonCmdReq(u)
               /\ (thr[t].op = "CSetCallback" /\ thr[u].pc = "resolve3")
                   => ENABLED InitResolveSetCallback(u)

\* C9 witness: a forwarder passed the null test with a resolved slot and
\* then called through the slot when it held null.
C9_Witness ==
    \E t \in Threads :
        /\ thr[t].op = "COmniStart"
        /\ thr[t].pc = "fault"
        /\ thr[t].chk # NULL
        /\ Len(thr[t].calls) = 1
        /\ thr[t].calls[1].fn = NULL

\* C10: for an executable path holding a backslash the string handed to
\* LoadLibrary is exactly "omnicored.dll"; CLoadLibAndInit faults before
\* the load only when the path holds no backslash.
C10_LoadPathFixed ==
    variant = "win" =>
        \A t \in Threads :
            thr[t].op = "CLoadLibAndInit"
                => /\ (HasBackslash(exePath)
                           /\ thr[t].pc \notin {"enter", "fault"})
                       => thr[t].szFilePath = DllName
                   /\ (thr[t].pc = "fault" /\ thr[t].calls = <<>>)
                       => ~HasBackslash(exePath)

\* C10 witness: the load has been attempted from an executable whose path
\* has a directory part longer than the file name.
C10_Witness ==
    /\ variant = "win"
    /\ exePath = LongExePath
    /\ \E t \in Threads :
           /\ thr[t].op = "CLoadLibAndInit"
           /\ thr[t].pc = "resolve1"
           /\ thr[t].szFilePath = DllName

=============================================================================
